---- MODULE Spec2Model ----
(***************************************************************************)
(* UniswapV3PoolAPI (src/data/uniswap/uniswapv3-pool-data-api.py):         *)
(*   - generate_minute_ohlcv: minute OHLCV candles from raw swap events,   *)
(*   - collect_all_data: the windowed, paginated collection of the swaps.  *)
(*                                                                         *)
(* Conventions of the model                                                *)
(*   - a JSON field of a swap is a tagged value: the key is absent from    *)
(*     the dict, is null, is a string that is no number, or is a number;   *)
(*   - a pandas float is an exact rational [n, d] in lowest terms with     *)
(*     d > 0, and NaN is [n |-> 0, d |-> 0]; rounding is not modelled;     *)
(*   - a numeric sqrtPriceX96 is written in units of 2^96 (v stands for    *)
(*     v * 2^96), so that sqrtPriceX96 / 2**96 is v itself.                *)
(***************************************************************************)
EXTENDS Integers, Sequences, FiniteSets, TLC

VARIABLES
    swaps,          \* generate_minute_ohlcv: the list of swap dicts handed in
    pool_info,      \* generate_minute_ohlcv: the pool metadata handed in
    result,         \* generate_minute_ohlcv: what the last call gave back
    pc,             \* "input" while the list is assembled, "done" after a call
    source,         \* collect_all_data: the subgraph's swaps (timestamps, ordered)
    end_timestamp,  \* collect_all_data: its argument (start_timestamp is 0)
    current_start,  \* collect_all_data: local
    current_end,    \* collect_all_data: local
    skip,           \* collect_all_data: local
    all_swaps,      \* collect_all_data: local, indices into source
    cpc             \* collect_all_data: position in the swap loop

vars == <<swaps, pool_info, result, pc,
          source, end_timestamp, current_start, current_end, skip, all_swaps, cpc>>
ohlcvVars == <<swaps, pool_info, result, pc>>
collectVars == <<source, end_timestamp, current_start, current_end, skip, all_swaps, cpc>>

(***************************************************************************)
(* Bounds of the model                                                     *)
(***************************************************************************)
MaxLen == 3        \* swaps handed to generate_minute_ohlcv
MaxSwaps == 3      \* swaps held by the subgraph in collect_all_data
PageSize == 2      \* stands for "first: 1000" and the 1000s of the page loop
MaxWindows == 2    \* end_timestamp is at most MaxWindows * month_seconds + 1

(***************************************************************************)
(* JSON values and pandas floats                                           *)
(***************************************************************************)
Absent == [k |-> "absent", v |-> 0]
Null == [k |-> "null", v |-> 0]
Bad == [k |-> "bad", v |-> 0]
Num(n) == [k |-> "num", v |-> n]

Abs(x) == IF x < 0 THEN -x ELSE x

RECURSIVE GCD(_, _)
GCD(a, b) == IF b = 0 THEN a ELSE GCD(b, a % b)

NaN == [n |-> 0, d |-> 0]

\* n / d for d # 0, in lowest terms
Rat(n, d) ==
    LET g == GCD(Abs(n), Abs(d))
        s == IF d < 0 THEN -1 ELSE 1
    IN  [n |-> s * (n \div g), d |-> s * (d \div g)]

IsNaN(x) == x.d = 0

FAdd(x, y) == IF IsNaN(x) \/ IsNaN(y) THEN NaN ELSE Rat(x.n * y.d + y.n * x.d, x.d * y.d)
FMul(x, y) == IF IsNaN(x) \/ IsNaN(y) THEN NaN ELSE Rat(x.n * y.n, x.d * y.d)
\* only used where y is not zero (the mask of line 317)
FDiv(x, y) == IF IsNaN(x) \/ IsNaN(y) THEN NaN ELSE Rat(x.n * y.d, x.d * y.n)
FAbs(x) == [n |-> Abs(x.n), d |-> x.d]
FLess(x, y) == x.n * y.d < y.n * x.d

\* pd.to_numeric(column, errors='coerce') on one cell
to_numeric(x) == IF x.k = "num" THEN Rat(x.v, 1) ELSE NaN

\* Series.isnull() on one cell of a column built from the dicts
isnull(x) == x.k \in {"absent", "null"}

\* 'name' in df.columns: some dict of the list has the key
HasColumn(ss, name) == \E i \in 1..Len(ss) : ss[i][name].k # "absent"

(***************************************************************************)
(* Price derivation, lines 297-320                                         *)
(***************************************************************************)
NoPoolInfo == [present |-> FALSE, token0 |-> 0, token1 |-> 0]

RECURSIVE Pow10(_)
Pow10(e) == IF e = 0 THEN 1 ELSE 10 * Pow10(e - 1)

\* 10**(token1_decimals - token0_decimals), a float when the exponent is negative
decimal_adjustment(pi) ==
    LET e == pi.token1 - pi.token0
    IN  IF e >= 0 THEN Rat(Pow10(e), 1) ELSE Rat(1, Pow10(-e))

\* the branch of line 299
UsesSqrtPrice(ss) ==
    /\ HasColumn(ss, "sqrtPriceX96")
    /\ ~ \A i \in 1..Len(ss) : isnull(ss[i].sqrtPriceX96)

\* lines 302-310, one row
SqrtPrice(s, pi) ==
    LET q == to_numeric(s.sqrtPriceX96)
        p == FMul(q, q)
    IN  IF pi.present THEN FMul(p, decimal_adjustment(pi)) ELSE p

\* lines 314-317, one row: rows with amount0 = 0 are left without a price
AmountPrice(s) ==
    LET a0 == to_numeric(s.amount0)
        a1 == to_numeric(s.amount1)
    IN  IF a0 = Rat(0, 1) THEN NaN ELSE FDiv(FAbs(a1), FAbs(a0))

(***************************************************************************)
(* Resampling, lines 326-335                                               *)
(***************************************************************************)
BucketSeconds == 60

\* the '1min' bin a timestamp falls in
Bucket(t) == t - (t % BucketSeconds)

\* df['price'] after lines 299-317, where the function goes on
PriceColumn(ss, pi) ==
    [i \in 1..Len(ss) |->
        IF UsesSqrtPrice(ss) THEN SqrtPrice(ss[i], pi) ELSE AmountPrice(ss[i])]

\* the frame after lines 294-323: one row per swap, in input order
Frame(ss, pi) ==
    LET price == PriceColumn(ss, pi)
    IN  [i \in 1..Len(ss) |->
            [timestamp |-> ss[i].timestamp.v,
             price     |-> price[i],
             amountUSD |-> to_numeric(ss[i].amountUSD)]]

\* r put into the time-ordered rows after every row that is not later than it
InsertRow(rows, r) ==
    LET k == Cardinality({j \in 1..Len(rows) : rows[j].timestamp <= r.timestamp})
    IN  SubSeq(rows, 1, k) \o <<r>> \o SubSeq(rows, k + 1, Len(rows))

\* a resample that takes the rows as they come
RowsAsGiven(df) == df

\* resample() orders an unsorted index with a stable sort
RECURSIVE SortByTime(_)
SortByTime(df) ==
    IF df = <<>> THEN <<>>
    ELSE InsertRow(SortByTime(SubSeq(df, 1, Len(df) - 1)), df[Len(df)])

NotNaN(col) == {j \in 1..Len(col) : ~IsNaN(col[j])}
SetMin(S) == CHOOSE x \in S : \A y \in S : x <= y
SetMax(S) == CHOOSE x \in S : \A y \in S : y <= x

\* a first() that takes the bin's first cell, NaN or not
FirstCell(col) == IF col = <<>> THEN NaN ELSE col[1]

\* the aggregations of a bin's column; each skips NaN
first(col) == IF NotNaN(col) = {} THEN NaN ELSE col[SetMin(NotNaN(col))]
last(col) == IF NotNaN(col) = {} THEN NaN ELSE col[SetMax(NotNaN(col))]
max(col) ==
    IF NotNaN(col) = {} THEN NaN
    ELSE col[CHOOSE j \in NotNaN(col) : \A m \in NotNaN(col) : ~FLess(col[j], col[m])]
min(col) ==
    IF NotNaN(col) = {} THEN NaN
    ELSE col[CHOOSE j \in NotNaN(col) : \A m \in NotNaN(col) : ~FLess(col[m], col[j])]
RECURSIVE sum(_)
sum(col) ==
    IF col = <<>> THEN Rat(0, 1)
    ELSE LET rest == sum(Tail(col))
         IN  IF IsNaN(Head(col)) THEN rest ELSE FAdd(Head(col), rest)
count(col) == Cardinality(NotNaN(col))

\* a grouping by minute, which has bins only where there are rows
BinsWithRows(rows) ==
    LET minutes == {Bucket(rows[j].timestamp) : j \in 1..Len(rows)}
    IN  [m \in 1..Cardinality(minutes) |->
            CHOOSE b \in minutes : Cardinality({c \in minutes : c < b}) = m - 1]

\* the bins of resample('1min'): every minute from the earliest row's to the latest row's
Bins(rows) ==
    LET index == {rows[j].timestamp : j \in 1..Len(rows)}
        lo == Bucket(SetMin(index))
        hi == Bucket(SetMax(index))
    IN  [m \in 1..((hi - lo) \div BucketSeconds + 1) |-> lo + (m - 1) * BucketSeconds]

\* lines 329-335: one row of ohlcv per bin, before the fill
Resample(df) ==
    LET rows == SortByTime(df)
        bins == Bins(rows)
    IN  [m \in DOMAIN bins |->
            LET InBin(r) == Bucket(r.timestamp) = bins[m]
                sel == SelectSeq(rows, InBin)
                price == [j \in DOMAIN sel |-> sel[j].price]
                usd == [j \in DOMAIN sel |-> sel[j].amountUSD]
            IN  [datetime |-> bins[m],
                 open   |-> first(price),
                 high   |-> max(price),
                 low    |-> min(price),
                 close  |-> last(price),
                 volume |-> sum(usd),
                 count  |-> count(usd)]]

\* fillna(method='ffill') on one column: the last value at or above that is not NaN
ffill(col) ==
    [m \in DOMAIN col |->
        LET seen == {j \in 1..m : ~IsNaN(col[j])}
        IN  IF seen = {} THEN NaN ELSE col[SetMax(seen)]]

\* line 338: every column of ohlcv is filled on its own; volume and count hold no NaN
fillna(ohlcv) ==
    LET Col(f) == [m \in DOMAIN ohlcv |-> ohlcv[m][f]]
        o == ffill(Col("open"))
        h == ffill(Col("high"))
        l == ffill(Col("low"))
        c == ffill(Col("close"))
    IN  [m \in DOMAIN ohlcv |->
            [datetime |-> ohlcv[m].datetime,
             open |-> o[m], high |-> h[m], low |-> l[m], close |-> c[m],
             volume |-> ohlcv[m].volume, count |-> ohlcv[m].count]]

(***************************************************************************)
(* generate_minute_ohlcv, lines 281-343                                    *)
(***************************************************************************)
ReturnNone == [kind |-> "None", rows |-> <<>>]
Raised == [kind |-> "raise", rows |-> <<>>]
ReturnFrame(rows) == [kind |-> "frame", rows |-> rows]

generate_minute_ohlcv(ss, pi) ==
    IF ss = <<>> THEN ReturnNone
    ELSE IF ~HasColumn(ss, "timestamp") \/ ~HasColumn(ss, "amountUSD") THEN ReturnNone
    ELSE IF \E i \in 1..Len(ss) : ss[i].timestamp.k # "num" THEN Raised
    ELSE IF UsesSqrtPrice(ss) \/ (HasColumn(ss, "amount0") /\ HasColumn(ss, "amount1"))
         THEN ReturnFrame(fillna(Resample(Frame(ss, pi))))
    ELSE ReturnNone

(***************************************************************************)
(* The swaps and pool metadata the calls are given                         *)
(***************************************************************************)
Swap(t, usd, sqrt, a0, a1) ==
    [timestamp |-> t, amountUSD |-> usd, sqrtPriceX96 |-> sqrt, amount0 |-> a0, amount1 |-> a1]

\* 0 and 30 share a minute, minute 60 holds nothing, 120 is two minutes on
Timestamps == {0, 30, 120}

\* amountUSD, sqrtPriceX96, amount0, amount1 of a swap with a proper timestamp
Trades ==
    { <<Num(2), Num(2), Num(1), Num(3)>>,      \* encoded price 4 (before rescaling)
      <<Num(2), Absent, Num(1), Num(3)>>,      \* no encoded price, ratio 3
      <<Num(-3), Null, Num(-2), Num(1)>>,      \* null encoded price, ratio 1/2
      <<Num(5), Absent, Num(0), Num(1)>> }     \* amount0 = 0: no price

Events ==
    { Swap(Num(t), k[1], k[2], k[3], k[4]) : t \in Timestamps, k \in Trades }
    \cup { Swap(Absent, Num(2), Absent, Num(1), Num(3)),    \* no timestamp
           Swap(Bad, Num(2), Num(2), Num(1), Num(3)),       \* timestamp is no number
           Swap(Num(0), Bad, Absent, Num(1), Num(3)),       \* amountUSD is no number
           Swap(Num(0), Num(2), Absent, Absent, Absent) }   \* no price field at all

PoolInfos == {NoPoolInfo, [present |-> TRUE, token0 |-> 1, token1 |-> 0]}

(***************************************************************************)
(* Calls of generate_minute_ohlcv                                          *)
(***************************************************************************)
Pending == [kind |-> "pending", rows |-> <<>>]

\* the caller puts one more swap on the list
AddSwap(e) ==
    /\ pc = "input"
    /\ Len(swaps) < MaxLen
    /\ swaps' = Append(swaps, e)
    /\ UNCHANGED <<pool_info, result, pc>>
    /\ UNCHANGED collectVars

\* generate_minute_ohlcv(swaps, pool_info)
Generate(pi) ==
    /\ pc = "input"
    /\ pool_info' = pi
    /\ result' = generate_minute_ohlcv(swaps, pi)
    /\ pc' = "done"
    /\ UNCHANGED swaps
    /\ UNCHANGED collectVars

\* the same events handed in again with two neighbours exchanged
Reorder(i) ==
    /\ pc = "done"
    /\ i \in 1..(Len(swaps) - 1)
    /\ swaps' = [swaps EXCEPT ![i] = swaps[i + 1], ![i + 1] = swaps[i]]
    /\ result' = generate_minute_ohlcv(swaps', pool_info)
    /\ UNCHANGED <<pool_info, pc>>
    /\ UNCHANGED collectVars

(***************************************************************************)
(* collect_all_data, the swap loop of lines 243-268                        *)
(***************************************************************************)
month_seconds == 2592000

Min(a, b) == IF a < b THEN a ELSE b

\* get_swap_events: the page at skip of the swaps of [start, end], ordered by timestamp
get_swap_events(src, start, end, sk) ==
    LET InRange(i) == start <= src[i] /\ src[i] <= end
        idx == [i \in 1..Len(src) |-> i]
        hits == SelectSeq(idx, InRange)
    IN  SubSeq(hits, sk + 1, Min(sk + PageSize, Len(hits)))

\* line 250 holds, lines 251-253
WindowOpen ==
    /\ cpc = "while"
    /\ current_start < end_timestamp
    /\ current_end' = Min(current_start + month_seconds, end_timestamp)
    /\ skip' = 0
    /\ cpc' = "page"
    /\ UNCHANGED <<source, end_timestamp, current_start, all_swaps>>
    /\ UNCHANGED ohlcvVars

\* line 250 fails: the loop is left
LoopExit ==
    /\ cpc = "while"
    /\ ~(current_start < end_timestamp)
    /\ cpc' = "done"
    /\ UNCHANGED <<source, end_timestamp, current_start, current_end, skip, all_swaps>>
    /\ UNCHANGED ohlcvVars

\* lines 255-257 and 267: an empty page ends the window
PageEmpty ==
    /\ cpc = "page"
    /\ get_swap_events(source, current_start, current_end, skip) = <<>>
    /\ current_start' = current_end
    /\ cpc' = "while"
    /\ UNCHANGED <<source, end_timestamp, current_end, skip, all_swaps>>
    /\ UNCHANGED ohlcvVars

\* lines 255-262 and 267: a short page is kept and ends the window
PageShort ==
    LET page == get_swap_events(source, current_start, current_end, skip)
    IN  /\ cpc = "page"
        /\ page # <<>>
        /\ Len(page) < PageSize
        /\ all_swaps' = all_swaps \o page
        /\ current_start' = current_end
        /\ cpc' = "while"
        /\ UNCHANGED <<source, end_timestamp, current_end, skip>>
        /\ UNCHANGED ohlcvVars

\* lines 255-265: a full page is kept and the next one asked for
PageFull ==
    LET page == get_swap_events(source, current_start, current_end, skip)
    IN  /\ cpc = "page"
        /\ Len(page) = PageSize
        /\ all_swaps' = all_swaps \o page
        /\ skip' = skip + PageSize
        /\ UNCHANGED <<source, end_timestamp, current_start, current_end, cpc>>
        /\ UNCHANGED ohlcvVars

(***************************************************************************)
(* Specifications                                                          *)
(***************************************************************************)
\* timestamps at and next to the window boundaries
SourceTimes == {w * month_seconds + o : w \in 0..MaxWindows, o \in {0, 1}}
EndTimes == {w * month_seconds + o : w \in 1..MaxWindows, o \in {0, 1}}

\* the subgraph answers orderBy: timestamp
Sources ==
    {s \in UNION {[1..n -> SourceTimes] : n \in 0..MaxSwaps} :
        \A i \in 1..(Len(s) - 1) : s[i] <= s[i + 1]}

IdleCollect ==
    /\ source = <<>>
    /\ end_timestamp = 0
    /\ current_start = 0
    /\ current_end = 0
    /\ skip = 0
    /\ all_swaps = <<>>
    /\ cpc = "idle"

IdleOhlcv ==
    /\ swaps = <<>>
    /\ pool_info = NoPoolInfo
    /\ result = Pending
    /\ pc = "idle"

Init ==
    /\ swaps = <<>>
    /\ pool_info = NoPoolInfo
    /\ result = Pending
    /\ pc = "input"
    /\ IdleCollect

Next ==
    \/ \E e \in Events : AddSwap(e)
    \/ \E pi \in PoolInfos : Generate(pi)
    \/ \E i \in 1..MaxLen : Reorder(i)

Spec == Init /\ [][Next]_vars

InitCollect ==
    /\ source \in Sources
    /\ end_timestamp \in EndTimes
    /\ current_start = 0
    /\ current_end = 0
    /\ skip = 0
    /\ all_swaps = <<>>
    /\ cpc = "while"
    /\ IdleOhlcv

NextCollect ==
    \/ WindowOpen
    \/ LoopExit
    \/ PageEmpty
    \/ PageShort
    \/ PageFull

SpecCollect == InitCollect /\ [][NextCollect]_vars

(***************************************************************************)
(* Notions the claims are stated in                                        *)
(***************************************************************************)
Done == pc = "done"
IsFrame == pc = "done" /\ result.kind = "frame"
Candles == result.rows

\* the event carries a timestamp and an amountUSD that are numbers
WellFormed(e) == e.timestamp.k = "num" /\ e.amountUSD.k = "num"
AllWellFormed == \A i \in 1..Len(swaps) : WellFormed(swaps[i])

\* the price of one event by the fixed priority: the encoded price if it is a
\* number, else the ratio of the amounts if both are numbers and amount0 # 0
PriorityPrice(e) ==
    IF e.sqrtPriceX96.k = "num" THEN SqrtPrice(e, pool_info)
    ELSE IF e.amount0.k = "num" /\ e.amount1.k = "num" /\ e.amount0.v # 0
         THEN Rat(Abs(e.amount1.v), Abs(e.amount0.v))
    ELSE NaN

\* the events that pass validation and carry a price
Survives(e) == WellFormed(e) /\ ~IsNaN(PriorityPrice(e))
AllSurvive == \A i \in 1..Len(swaps) : Survives(swaps[i])

\* the minute of event i (its timestamp is a number)
MinuteOf(i) == swaps[i].timestamp.v - (swaps[i].timestamp.v % 60)
EventsIn(b) == {i \in 1..Len(swaps) : MinuteOf(i) = b}

\* event i comes before event j by timestamp, ties by input order
Before(i, j) ==
    \/ swaps[i].timestamp.v < swaps[j].timestamp.v
    \/ swaps[i].timestamp.v = swaps[j].timestamp.v /\ i <= j

RECURSIVE SumAbsUSD(_)
SumAbsUSD(S) ==
    IF S = {} THEN 0
    ELSE LET i == CHOOSE x \in S : TRUE
         IN  Abs(swaps[i].amountUSD.v) + SumAbsUSD(S \ {i})

\* the events that share a timestamp come in the same order before and after the step
SameTieOrder ==
    \A i \in 1..Len(swaps) :
        LET Tied(e) == e.timestamp = swaps[i].timestamp
        IN  SelectSeq(swaps, Tied) = SelectSeq(swaps', Tied)

(***************************************************************************)
(* Claims                                                                  *)
(***************************************************************************)

\* C1: every gap-filled candle (a minute between the first and the last populated
\* one that holds no trade) has volume 0, tradeCount 0 and open, high, low and
\* close all equal to the close of the candle before it (all events valid and
\* priced, so that every event's minute is a populated one).
C1_GapFilledFromPreviousClose ==
    (IsFrame /\ AllSurvive) =>
        \A m \in 2..Len(Candles) :
            EventsIn(Candles[m].datetime) = {} =>
                /\ Candles[m].volume = Rat(0, 1)
                /\ Candles[m].count = 0
                /\ Candles[m].open = Candles[m - 1].close
                /\ Candles[m].high = Candles[m - 1].close
                /\ Candles[m].low = Candles[m - 1].close
                /\ Candles[m].close = Candles[m - 1].close

\* C2: for a non-empty trade set whose events all are valid and priced, the call
\* returns candles, one for each minute from the first populated minute to the
\* last, in ascending order, and none before the first or after the last.
C2_CandlesCoverObservedRange ==
    (Done /\ swaps # <<>> /\ AllSurvive) =>
        LET populated == {MinuteOf(i) : i \in 1..Len(swaps)}
            lo == SetMin(populated)
            hi == SetMax(populated)
        IN  /\ result.kind = "frame"
            /\ Len(Candles) = (hi - lo) \div 60 + 1
            /\ \A m \in 1..Len(Candles) : Candles[m].datetime = lo + 60 * (m - 1)

\* C2 witness: valid, priced events two minutes apart gave three candles, the
\* middle one for a minute without events.
C2_Witness ==
    /\ Done /\ swaps # <<>> /\ AllSurvive
    /\ result.kind = "frame"
    /\ Len(Candles) = 3
    /\ EventsIn(Candles[2].datetime) = {}

\* C3 as stated: handing the same events in any other order gives the same
\* candles, also when events share a timestamp.
C3_OrderIndependent ==
    [][(pc = "done" /\ pc' = "done") => result' = result]_vars

\* C3 as amended: handing the same events in another order that keeps the input
\* order of the events sharing a timestamp gives the same candles.
C3_OrderIndependentUpToTies ==
    [][(pc = "done" /\ pc' = "done" /\ SameTieOrder) => result' = result]_vars

\* C3 witness: a call on a list that is not in time order, whose first two events
\* fall in one minute at different times with different prices.
C3_Witness ==
    /\ IsFrame
    /\ Len(swaps) >= 2
    /\ swaps[1].timestamp.v > swaps[2].timestamp.v
    /\ MinuteOf(1) = MinuteOf(2)
    /\ Candles[1].open # Candles[1].close
    /\ Candles[1].open = PriceColumn(swaps, pool_info)[2]

\* C4: every event is priced on its own by the fixed priority, so the high and
\* the low of a minute are the largest and the smallest of the prices that the
\* priority gives the minute's events.
C4_FixedPricePriority ==
    (IsFrame /\ AllWellFormed) =>
        \A m \in 1..Len(Candles) :
            LET priced == {i \in EventsIn(Candles[m].datetime) : ~IsNaN(PriorityPrice(swaps[i]))}
            IN  priced # {} =>
                    /\ \E i \in priced : Candles[m].high = PriorityPrice(swaps[i])
                    /\ \E i \in priced : Candles[m].low = PriorityPrice(swaps[i])
                    /\ \A i \in priced : ~FLess(Candles[m].high, PriorityPrice(swaps[i]))
                    /\ \A i \in priced : ~FLess(PriorityPrice(swaps[i]), Candles[m].low)

\* C5: when no event of the input yields a price, the call returns the explicit
\* no-data result: no exception and no candles.
C5_NoPriceGivesNoData ==
    (Done /\ \A i \in 1..Len(swaps) : IsNaN(PriorityPrice(swaps[i]))) =>
        result = ReturnNone

\* C6: the volume of every candle is the sum of the magnitudes of the amountUSD
\* of the minute's events (all events valid and priced).
C6_VolumeSumsMagnitudes ==
    (IsFrame /\ AllSurvive) =>
        \A m \in 1..Len(Candles) :
            Candles[m].volume = Rat(SumAbsUSD(EventsIn(Candles[m].datetime)), 1)

\* C7: an event without a derivable price adds nothing to the tradeCount or the
\* volume of any candle (inputs of valid events, one of them at least priced).
C7_UnpricedEventsExcluded ==
    (IsFrame /\ AllWellFormed /\ \E i \in 1..Len(swaps) : Survives(swaps[i])) =>
        \A m \in 1..Len(Candles) :
            LET priced == {i \in EventsIn(Candles[m].datetime) : ~IsNaN(PriorityPrice(swaps[i]))}
            IN  /\ Candles[m].count = Cardinality(priced)
                /\ priced = {} => Candles[m].volume = Rat(0, 1)

\* C8: with a malformed event in the input (timestamp or amountUSD missing or no
\* number) the call raises nothing and gives what it gives without that event.
C8_MalformedDroppedSilently ==
    (Done /\ ~AllWellFormed) =>
        /\ result.kind # "raise"
        /\ result = generate_minute_ohlcv(SelectSeq(swaps, WellFormed), pool_info)

C10_EverySwapCollectedOnce ==
    cpc = "done" =>
        \A i \in 1..Len(source) :
            (0 <= source[i] /\ source[i] <= end_timestamp) =>
                Cardinality({j \in 1..Len(all_swaps) : all_swaps[j] = i}) = 1

====
